---- MODULE Spec2Model ----
(***************************************************************************)
(* A model of src/app.py: the Streamlit syllabus generator built on the    *)
(* Vertex AI Gemini client.                                                *)
(*                                                                         *)
(*   SpecGemini   one invocation of get_gemini_response, step by step      *)
(*   SpecHelpers  get_storage_url and get_model_name applied to inputs     *)
(*   SpecScript   the top-level form script, run after run                 *)
(*                                                                         *)
(* Python strings are TLA+ strings; TLC evaluates Len, \o and SubSeq on    *)
(* them.  A call's outcome is a record: Return(v) or Raise(class).         *)
(***************************************************************************)
EXTENDS Integers, Sequences, FiniteSets, TLC

VARIABLES
    pc,                 \* position inside get_gemini_response
    model,              \* argument: the model handle
    contents,           \* argument: the prompt
    generation_config,  \* argument
    stream,             \* argument
    calls,              \* the generate_content requests the provider received
    responses,          \* the object generate_content returned
    arrived,            \* the chunks the response iterator has yielded, in order
    final_response,     \* the accumulation list of lines 56-63
    result,             \* outcome of get_gemini_response
    helper,             \* the helper call under evaluation
    helper_result,      \* its outcome
    spc,                \* position inside the form script
    ns,                 \* the script's namespace: name -> binding
    script_exc,         \* the exception that ended the script run, if any
    request             \* the get_gemini_response call the script made, if any

gemini_vars == <<pc, model, contents, generation_config, stream, calls,
                 responses, arrived, final_response, result>>
helper_vars == <<helper, helper_result>>
script_vars == <<spc, ns, script_exc, request>>
vars == <<gemini_vars, helper_vars, script_vars>>

----------------------------------------------------------------------------
(* Bounds of the model *)

\* chunks one streamed response may carry
MaxChunks == 3
\* tokens concatenated into one helper input string
MaxParts == 3
\* options one multiselect answer may hold
MaxSelected == 2

----------------------------------------------------------------------------
(* Outcomes and Python built-ins *)

Return(v) == [kind |-> "return", value |-> v]
Raise(e) == [kind |-> "raise", exc |-> e]
Pending == [kind |-> "pending"]
Unbound == [bound |-> FALSE]
Bound(v) == [bound |-> TRUE, value |-> v]

\* exception classes the provider client may raise
ExcClasses == {"IndexError", "ValueError", "ConnectionError"}

\* str.find: lowest 1-based index at which sub occurs in s, 0 when absent
find(s, sub) ==
    LET hits == {i \in 1..(Len(s) - Len(sub) + 1) :
                    SubSeq(s, i, i + Len(sub) - 1) = sub}
    IN IF hits = {} THEN 0 ELSE CHOOSE i \in hits : \A j \in hits : i <= j

\* str.split(sep): the pieces between the non-overlapping occurrences of sep,
\* scanned left to right
RECURSIVE split(_, _)
split(s, sep) ==
    LET i == find(s, sep)
    IN IF i = 0 THEN <<s>>
       ELSE <<SubSeq(s, 1, i - 1)>> \o split(SubSeq(s, i + Len(sep), Len(s)), sep)

\* str.replace(old, new): every non-overlapping occurrence, left to right,
\* the result is not scanned again
RECURSIVE replace(_, _, _)
replace(s, old, new) ==
    LET i == find(s, old)
    IN IF i = 0 THEN s
       ELSE SubSeq(s, 1, i - 1) \o new \o replace(SubSeq(s, i + Len(old), Len(s)), old, new)

\* faulty variant of join: the items run together, the separator is lost
join_nosep(sep, items) ==
    LET RECURSIVE cat(_)
        cat(xs) == IF xs = <<>> THEN "" ELSE Head(xs) \o cat(Tail(xs))
    IN cat(items)

\* sep.join(items)
RECURSIVE join(_, _)
join(sep, items) ==
    IF items = <<>> THEN ""
    ELSE IF Len(items) = 1 THEN items[1]
    ELSE items[1] \o sep \o join(sep, Tail(items))

----------------------------------------------------------------------------
(* get_gemini_response, lines 30-63 *)

Models == {[_model_name |-> "publishers/google/models/gemini-1.5-flash"],
           [_model_name |-> "publishers/google/models/gemini-1.5-pro"]}

\* the default of line 33 and the configuration the script passes (line 172)
default_generation_config == [temperature |-> "0.1", max_output_tokens |-> "2048"]
Configs == {default_generation_config,
            [temperature |-> "0.95", max_output_tokens |-> "None"]}

ContentsInputs == {"Write a syllabus", ""}

\* text payloads a chunk or a full response may carry
Texts == {"", "Hello", "world"}

\* faulty variant of safety_settings: one category is not blocked at all
safety_settings_lax ==
    [c \in {"HARM_CATEGORY_HARASSMENT", "HARM_CATEGORY_HATE_SPEECH",
            "HARM_CATEGORY_SEXUALLY_EXPLICIT", "HARM_CATEGORY_DANGEROUS_CONTENT"}
        |-> IF c = "HARM_CATEGORY_DANGEROUS_CONTENT" THEN "BLOCK_NONE"
            ELSE "BLOCK_ONLY_HIGH"]

safety_settings ==
    [c \in {"HARM_CATEGORY_HARASSMENT", "HARM_CATEGORY_HATE_SPEECH",
            "HARM_CATEGORY_SEXUALLY_EXPLICIT", "HARM_CATEGORY_DANGEROUS_CONTENT"}
        |-> "BLOCK_ONLY_HIGH"]

\* what reading .text of a chunk or of a full response can do
TextOutcomes == {Return(t) : t \in Texts} \cup {Raise(e) : e \in ExcClasses}

\* faulty variant of the except clause: a bare except
except_any(exc) == TRUE

\* the except clause of line 60
except_IndexError(exc) == exc = "IndexError"

the_request ==
    [model |-> model, contents |-> contents,
     generation_config |-> generation_config,
     safety_settings |-> safety_settings, stream |-> stream]

\* lines 39-51: the provider answers with a response object
GenerateContent ==
    /\ pc = "start"
    /\ calls' = Append(calls, the_request)
    /\ \E o \in TextOutcomes :
          responses' = IF stream THEN Bound([kind |-> "stream"])
                       ELSE Bound([kind |-> "full", text |-> o])
    /\ pc' = "called"
    /\ UNCHANGED <<helper_vars, script_vars, model, contents, generation_config, stream, arrived,
                   final_response, result>>

\* lines 39-51: the provider call itself raises; nothing catches it
GenerateContentFails ==
    /\ pc = "start"
    /\ calls' = Append(calls, the_request)
    /\ \E e \in ExcClasses : result' = Raise(e)
    /\ pc' = "raised"
    /\ UNCHANGED <<helper_vars, script_vars, model, contents, generation_config, stream, responses,
                   arrived, final_response>>

\* faulty variant of lines 53-54: the IndexError recovery of the loop applied
\* to the full response
NonStreamReturnRecovering ==
    /\ pc = "called"
    /\ ~stream
    /\ result' = IF responses.value.text.kind = "return"
                 THEN Return(responses.value.text.value)
                 ELSE IF responses.value.text.exc = "IndexError" THEN Return("")
                 ELSE Raise(responses.value.text.exc)
    /\ pc' = IF result'.kind = "return" THEN "returned" ELSE "raised"
    /\ UNCHANGED <<helper_vars, script_vars, model, contents, generation_config, stream, calls,
                   responses, arrived, final_response>>

\* faulty variant of lines 53-54: the text goes through the accumulation
\* list and the join, which leaves a trailing separator
NonStreamReturnPadded ==
    /\ pc = "called"
    /\ ~stream
    /\ result' = IF responses.value.text.kind = "return"
                 THEN Return(join(" ", <<responses.value.text.value, "">>))
                 ELSE Raise(responses.value.text.exc)
    /\ pc' = IF result'.kind = "return" THEN "returned" ELSE "raised"
    /\ UNCHANGED <<helper_vars, script_vars, model, contents, generation_config, stream, calls,
                   responses, arrived, final_response>>

\* lines 53-54: return responses.text, or whatever reading it raises
NonStreamReturn ==
    /\ pc = "called"
    /\ ~stream
    /\ result' = IF responses.value.text.kind = "return"
                 THEN Return(responses.value.text.value)
                 ELSE Raise(responses.value.text.exc)
    /\ pc' = IF result'.kind = "return" THEN "returned" ELSE "raised"
    /\ UNCHANGED <<helper_vars, script_vars, model, contents, generation_config, stream, calls,
                   responses, arrived, final_response>>

\* lines 53, 56
EnterLoop ==
    /\ pc = "called"
    /\ stream
    /\ final_response' = Bound(<<>>)
    /\ pc' = "loop"
    /\ UNCHANGED <<helper_vars, script_vars, model, contents, generation_config, stream, calls,
                   responses, arrived, result>>

\* line 59: final_response.append(r.text)
on_text(lst, t) == Append(lst, t)

\* faulty variant of line 61: the chunk is skipped, nothing is appended
on_no_payload_skip(lst) == lst

\* line 61: final_response.append("")
on_no_payload(lst) == Append(lst, "")

\* lines 57-59: the iterator yields a chunk whose text is present
NextChunkText ==
    /\ pc = "loop"
    /\ Len(arrived) < MaxChunks
    /\ \E t \in Texts :
          /\ arrived' = Append(arrived, [text |-> Return(t)])
          /\ final_response' = Bound(on_text(final_response.value, t))
    /\ UNCHANGED <<helper_vars, script_vars, pc, model, contents, generation_config, stream, calls,
                   responses, result>>

\* lines 57-62: the iterator yields a chunk, reading its text raises, and
\* the except clause catches the class
NextChunkCaught ==
    /\ pc = "loop"
    /\ Len(arrived) < MaxChunks
    /\ \E e \in ExcClasses :
          /\ except_IndexError(e)
          /\ arrived' = Append(arrived, [text |-> Raise(e)])
          /\ final_response' = Bound(on_no_payload(final_response.value))
    /\ UNCHANGED <<helper_vars, script_vars, pc, model, contents, generation_config, stream, calls,
                   responses, result>>

\* lines 57-59: the iterator yields a chunk, reading its text raises a class
\* the except clause does not name
NextChunkTextFails ==
    /\ pc = "loop"
    /\ Len(arrived) < MaxChunks
    /\ \E e \in ExcClasses :
          /\ ~except_IndexError(e)
          /\ arrived' = Append(arrived, [text |-> Raise(e)])
          /\ result' = Raise(e)
    /\ pc' = "raised"
    /\ UNCHANGED <<helper_vars, script_vars, model, contents, generation_config, stream, calls,
                   responses, final_response>>

\* line 57: fetching the next chunk raises, outside the try block
NextFails ==
    /\ pc = "loop"
    /\ \E e \in ExcClasses : result' = Raise(e)
    /\ pc' = "raised"
    /\ UNCHANGED <<helper_vars, script_vars, model, contents, generation_config, stream, calls,
                   responses, arrived, final_response>>

\* lines 57, 63: the iterator is exhausted
StreamEnds ==
    /\ pc = "loop"
    /\ result' = Return(join(" ", final_response.value))
    /\ pc' = "returned"
    /\ UNCHANGED <<helper_vars, script_vars, model, contents, generation_config, stream, calls,
                   responses, arrived, final_response>>

NextGemini ==
    \/ GenerateContent
    \/ GenerateContentFails
    \/ NonStreamReturn
    \/ EnterLoop
    \/ NextChunkText
    \/ NextChunkCaught
    \/ NextChunkTextFails
    \/ NextFails
    \/ StreamEnds

----------------------------------------------------------------------------
(* get_model_name and get_storage_url, lines 66-76 *)

\* The grave accent (U+0060) of line 71.  A TLA+ string cannot hold that
\* character, so the apostrophe stands for it; no input of the model holds
\* an apostrophe.
BACKTICK == "'"

\* lines 66-71
get_model_name(m) ==
    LET model_name == replace(m._model_name, "publishers/google/models/", "")
    IN Return(BACKTICK \o model_name \o BACKTICK)

\* faulty variant of get_storage_url: the last piece is taken, so an input
\* without the marker is returned whole
get_storage_url_lenient(gcs_uri) ==
    LET parts == split(gcs_uri, "gs://")
    IN Return("https://storage.googleapis.com/" \o parts[Len(parts)])

\* lines 74-76: indexing the list of pieces at [1] raises IndexError when
\* split found no separator
get_storage_url(gcs_uri) ==
    LET parts == split(gcs_uri, "gs://")
    IN IF Len(parts) < 2 THEN Raise("IndexError")
       ELSE Return("https://storage.googleapis.com/" \o parts[2])

\* every string made of at most n of the tokens
RECURSIVE Concats(_, _)
Concats(tokens, n) ==
    IF n = 0 THEN {""}
    ELSE LET shorter == Concats(tokens, n - 1)
         IN shorter \cup {p \o t : p \in shorter, t \in tokens}

UriTokens == {"gs://", "my-bucket/path/to/object.txt", "a/", "g", "s://"}
ModelNameTokens == {"publishers/google/models/", "gemini-1.5-pro",
                    "publishers/google/", "models/", "x"}

UriInputs == Concats(UriTokens, MaxParts)
ModelNameInputs == Concats(ModelNameTokens, MaxParts)

NoHelper == [fn |-> "none"]

Call_get_storage_url ==
    /\ helper.fn = "get_storage_url"
    /\ helper_result = Pending
    /\ helper_result' = get_storage_url(helper.arg)
    /\ UNCHANGED <<gemini_vars, script_vars, helper>>

Call_get_model_name ==
    /\ helper.fn = "get_model_name"
    /\ helper_result = Pending
    /\ helper_result' = get_model_name(helper.arg)
    /\ UNCHANGED <<gemini_vars, script_vars, helper>>

NextHelpers ==
    \/ Call_get_storage_url
    \/ Call_get_model_name

----------------------------------------------------------------------------
(* The form script, lines 79-195.  Streamlit executes it from the top, in *)
(* a fresh namespace, on every interaction.                               *)

\* lines 24-27; the client library expands a short name to its resource path
GenerativeModel(name) == [_model_name |-> "publishers/google/models/" \o name]
load_models == <<GenerativeModel("gemini-1.5-flash"), GenerativeModel("gemini-1.5-pro")>>

Names == {"selected_model", "company_name", "company_industry", "job_title",
          "job_level", "class_type", "language_class", "upskill_class",
          "class_format", "learning_objective", "prompt", "config",
          "generate_t2t", "response"}

\* lines 120-126
language_options == {"English", "Mandarin", "Japanese", "Korean", "Bahasa Indonesia"}

\* lines 132-143
upskill_options == {"Business & Management", "Media & Creative",
                    "Tourism & Hospitality", "Language", "Engineering",
                    "Technology", "Career & Development", "Agriculture",
                    "Green & Sustainability", "Education"}

\* what a user may leave in a text input: its default value or their own text
TextEntries(default) == {default, "Acme"}

\* what a user may leave in a multiselect
Selections(options) == {sel \in SUBSET options : Cardinality(sel) <= MaxSelected}

EmptyNamespace == [n \in Names |-> Unbound]

\* lines 79-116: the model radio, the four text inputs, the class type radio
Questionnaire ==
    /\ spc = "top"
    /\ \E m \in {load_models[1], load_models[2]},
          cn \in TextEntries("Company Name"),
          ci \in TextEntries("Company Industry"),
          jt \in TextEntries("Job Title"),
          jl \in TextEntries("Job Level"),
          ct \in {"upskill", "language"} :
          ns' = [ns EXCEPT !["selected_model"] = Bound(m),
                           !["company_name"] = Bound(cn),
                           !["company_industry"] = Bound(ci),
                           !["job_title"] = Bound(jt),
                           !["job_level"] = Bound(jl),
                           !["class_type"] = Bound(ct)]
    /\ spc' = "class_type"
    /\ UNCHANGED <<gemini_vars, helper_vars, script_exc, request>>

\* lines 117-128
LanguageScope ==
    /\ spc = "class_type"
    /\ ns["class_type"].value = "language"
    /\ \E sel \in Selections(language_options) :
          ns' = [ns EXCEPT !["language_class"] = Bound(sel)]
    /\ spc' = "class_format"
    /\ UNCHANGED <<gemini_vars, helper_vars, script_exc, request>>

\* lines 129-145
UpskillScope ==
    /\ spc = "class_type"
    /\ ns["class_type"].value # "language"
    /\ ns["class_type"].value = "upskill"
    /\ \E sel \in Selections(upskill_options) :
          ns' = [ns EXCEPT !["upskill_class"] = Bound(sel)]
    /\ spc' = "class_format"
    /\ UNCHANGED <<gemini_vars, helper_vars, script_exc, request>>

\* lines 146-154: the class format radio and the objective input
ClassFormat ==
    /\ spc = "class_format"
    /\ \E cf \in {"offline", "online"}, lo \in TextEntries("Job Level") :
          ns' = [ns EXCEPT !["class_format"] = Bound(cf),
                           !["learning_objective"] = Bound(lo)]
    /\ spc' = "prompt"
    /\ UNCHANGED <<gemini_vars, helper_vars, script_exc, request>>

\* lines 146-151: the radio reuses the key "creative_control" of line 114;
\* a Streamlit that refuses a repeated widget key ends the run here
ClassFormatDuplicateKey ==
    /\ spc = "class_format"
    /\ script_exc' = "DuplicateWidgetID"
    /\ spc' = "failed"
    /\ UNCHANGED <<gemini_vars, helper_vars, ns, request>>

\* the names the template of lines 156-169 reads, in evaluation order
prompt_reads == <<"company_industry", "job_title", "job_level", "class_type",
                  "upskill_class", "class_type", "language_class">>

\* lines 156-169: the first name the template reads that is not bound, or 0
first_unbound ==
    LET missing == {i \in DOMAIN prompt_reads : ~ns[prompt_reads[i]].bound}
    IN IF missing = {} THEN 0
       ELSE CHOOSE i \in missing : \A j \in missing : i <= j

\* lines 156-169: the template with its holes filled
prompt_value == [i \in DOMAIN prompt_reads |-> ns[prompt_reads[i]].value]

\* line 172
config_value == [temperature |-> "0.95", max_output_tokens |-> "None"]

\* lines 30-63 as the script sees them: what a streaming call of
\* get_gemini_response can come to.  It returns the joined texts of the
\* chunks, "" standing for a chunk without payload, or ends with an
\* exception of the provider that nothing caught
StreamingOutcomes ==
    {Return(join(" ", texts)) :
        texts \in UNION {[1..n -> Texts] : n \in 0..MaxChunks}}
    \cup {Raise(e) : e \in ExcClasses}

\* lines 183-187: the arguments of the call; stream keeps its default
request_value ==
    [model |-> ns["selected_model"].value,
     contents |-> prompt_value,
     generation_config |-> config_value,
     stream |-> TRUE]

\* lines 156-195: the template is evaluated; a read of an unbound name
\* raises NameError and ends the run.  Otherwise the button is drawn and,
\* when it was pressed, get_gemini_response is called outside any try
\* block: its return value is bound to response and rendered, its
\* exception ends the run at line 183
PromptAndGenerate ==
    /\ spc = "prompt"
    /\ IF first_unbound # 0
       THEN /\ script_exc' = "NameError"
            /\ spc' = "failed"
            /\ UNCHANGED <<ns, request>>
       ELSE \E pressed \in BOOLEAN :
               IF ~pressed
               THEN /\ ns' = [ns EXCEPT !["prompt"] = Bound(prompt_value),
                                        !["config"] = Bound(config_value),
                                        !["generate_t2t"] = Bound(FALSE)]
                    /\ request' = Unbound
                    /\ spc' = "rendered"
                    /\ UNCHANGED script_exc
               ELSE \E o \in StreamingOutcomes :
                       /\ request' = Bound(request_value)
                       /\ IF o.kind = "return"
                          THEN /\ ns' = [ns EXCEPT
                                            !["prompt"] = Bound(prompt_value),
                                            !["config"] = Bound(config_value),
                                            !["generate_t2t"] = Bound(TRUE),
                                            !["response"] = Bound(o.value)]
                               /\ spc' = "rendered"
                               /\ UNCHANGED script_exc
                          ELSE /\ ns' = [ns EXCEPT
                                            !["prompt"] = Bound(prompt_value),
                                            !["config"] = Bound(config_value),
                                            !["generate_t2t"] = Bound(TRUE)]
                               /\ spc' = "failed"
                               /\ script_exc' = o.exc
    /\ UNCHANGED <<gemini_vars, helper_vars>>

\* the next interaction runs the script again, from the top
Rerun ==
    /\ spc \in {"failed", "rendered"}
    /\ spc' = "top"
    /\ ns' = EmptyNamespace
    /\ script_exc' = "none"
    /\ request' = Unbound
    /\ UNCHANGED <<gemini_vars, helper_vars>>

NextScript ==
    \/ Questionnaire
    \/ LanguageScope
    \/ UpskillScope
    \/ ClassFormat
    \/ ClassFormatDuplicateKey
    \/ PromptAndGenerate
    \/ Rerun

----------------------------------------------------------------------------
(* Specifications *)

\* one invocation of get_gemini_response on arguments drawn from the input
\* sets; no helper call and no script run beside it
InitGemini ==
    /\ pc = "start"
    /\ model \in Models
    /\ contents \in ContentsInputs
    /\ generation_config \in Configs
    /\ stream \in BOOLEAN
    /\ calls = <<>>
    /\ responses = Unbound
    /\ arrived = <<>>
    /\ final_response = Unbound
    /\ result = Pending
    /\ helper = NoHelper
    /\ helper_result = Pending
    /\ spc = "idle"
    /\ ns = EmptyNamespace
    /\ script_exc = "none"
    /\ request = Unbound

\* one helper call on an argument drawn from the input sets
InitHelpers ==
    /\ pc = "idle"
    /\ model = [_model_name |-> ""]
    /\ contents = ""
    /\ generation_config = default_generation_config
    /\ stream = TRUE
    /\ calls = <<>>
    /\ responses = Unbound
    /\ arrived = <<>>
    /\ final_response = Unbound
    /\ result = Pending
    /\ helper \in {[fn |-> "get_storage_url", arg |-> u] : u \in UriInputs}
           \cup {[fn |-> "get_model_name", arg |-> [_model_name |-> n]] :
                    n \in ModelNameInputs}
    /\ helper_result = Pending
    /\ spc = "idle"
    /\ ns = EmptyNamespace
    /\ script_exc = "none"
    /\ request = Unbound

\* the script about to run from its first line
InitScript ==
    /\ pc = "idle"
    /\ model = [_model_name |-> ""]
    /\ contents = ""
    /\ generation_config = default_generation_config
    /\ stream = TRUE
    /\ calls = <<>>
    /\ responses = Unbound
    /\ arrived = <<>>
    /\ final_response = Unbound
    /\ result = Pending
    /\ helper = NoHelper
    /\ helper_result = Pending
    /\ spc = "top"
    /\ ns = EmptyNamespace
    /\ script_exc = "none"
    /\ request = Unbound

SpecGemini == InitGemini /\ [][NextGemini]_vars

SpecHelpers == InitHelpers /\ [][NextHelpers]_vars

SpecScript == InitScript /\ [][NextScript]_vars

----------------------------------------------------------------------------
(* Properties of get_gemini_response, checked under SpecGemini *)

\* items[1] + " " + ... + " " + items[n], built from the left
RECURSIVE SpacedConcat(_, _)
SpacedConcat(items, n) ==
    IF n = 0 THEN ""
    ELSE IF n = 1 THEN items[1]
    ELSE SpacedConcat(items, n - 1) \o " " \o items[n]

AllTextPresent == \A k \in DOMAIN arrived : arrived[k].text.kind = "return"
ArrivedTexts == [k \in DOMAIN arrived |-> arrived[k].text.value]
NoPayload(k) == arrived[k].text = Raise("IndexError")
ArrivedOrPlaceholder ==
    [k \in DOMAIN arrived |-> IF NoPayload(k) THEN "" ELSE arrived[k].text.value]

\* C1: in streaming mode, when every chunk that arrived carries a text, the
\* accumulation list holds exactly those texts in arrival order, and once
\* the stream has ended the result is text(c1) + " " + ... + " " + text(cn),
\* the empty string for n = 0.
C1_StreamJoinsInArrivalOrder ==
    (stream /\ pc \in {"loop", "returned"} /\ AllTextPresent) =>
        /\ final_response.value = ArrivedTexts
        /\ pc = "returned" =>
              /\ result = Return(SpacedConcat(ArrivedTexts, Len(arrived)))
              /\ arrived = <<>> => result = Return("")

C1_Witness ==
    /\ stream
    /\ pc = "returned"
    /\ arrived = <<[text |-> Return("Hello")], [text |-> Return("world")]>>
    /\ result = Return("Hello world")

C2_Inv ==
    (stream /\ pc \in {"loop", "returned"}) =>
        /\ Len(final_response.value) = Len(arrived)
        /\ final_response.value = ArrivedOrPlaceholder
        /\ pc = "returned" =>
              result = Return(SpacedConcat(ArrivedOrPlaceholder, Len(arrived)))
        /\ (/\ pc = "returned"
            /\ arrived = <<[text |-> Return("Hello")], [text |-> Raise("IndexError")],
                           [text |-> Return("world")]>>)
              => result = Return("Hello  world")

C2_Step ==
    (/\ Len(arrived') = Len(arrived) + 1
     /\ arrived'[Len(arrived')].text = Raise("IndexError"))
        => /\ pc' = "loop"
           /\ final_response'.value = Append(final_response.value, "")

\* C2: in streaming mode a chunk whose text read fails with IndexError does
\* not end the iteration: an empty string takes its position, the loop goes
\* on, the list has one entry per chunk, and "Hello", <no payload>, "world"
\* gives "Hello  world".
C2_NoPayloadKeepsPosition == []C2_Inv /\ [][C2_Step]_vars

C2_Witness ==
    /\ stream
    /\ pc = "returned"
    /\ arrived = <<[text |-> Return("Hello")], [text |-> Raise("IndexError")],
                   [text |-> Return("world")]>>
    /\ final_response.value = <<"Hello", "", "world">>
    /\ result = Return("Hello  world")

\* C3: in non-streaming mode a response whose text P is present is returned
\* as exactly P, and the accumulation loop is never entered.
C3_NonStreamVerbatim ==
    (~stream /\ responses.bound /\ responses.value.text.kind = "return") =>
        /\ pc \in {"called", "returned"}
        /\ pc = "returned" => result = Return(responses.value.text.value)
        /\ arrived = <<>>
        /\ final_response = Unbound

C3_Witness ==
    /\ ~stream
    /\ pc = "returned"
    /\ responses.value.text = Return("Hello")
    /\ result = Return("Hello")

C4_Inv ==
    /\ \A k \in DOMAIN arrived :
          (arrived[k].text.kind = "raise" /\ ~NoPayload(k)) =>
              /\ k = Len(arrived)
              /\ pc = "raised"
              /\ result = Raise(arrived[k].text.exc)
              /\ Len(final_response.value) = k - 1
    /\ pc = "raised" => result.kind = "raise"
    /\ result.kind = "return" => pc = "returned"

C4_Step == pc = "raised" => UNCHANGED <<pc, arrived, final_response, result, calls>>

\* C4: in streaming mode a failure other than the per-chunk IndexError ends
\* get_gemini_response with that failure: no placeholder stands for it, no
\* chunk is consumed after it, and no string is returned.
C4_OtherFailuresPropagate == []C4_Inv /\ [][C4_Step]_vars

C4_Witness ==
    /\ stream
    /\ pc = "raised"
    /\ arrived = <<[text |-> Return("Hello")], [text |-> Raise("ConnectionError")]>>
    /\ final_response.value = <<"Hello">>
    /\ result = Raise("ConnectionError")

\* C5: in non-streaming mode, when reading the text fails the failure is the
\* outcome of get_gemini_response, whatever its class, IndexError included;
\* no value is returned in its place.
C5_NonStreamFailurePropagates ==
    (~stream /\ responses.bound /\ responses.value.text.kind = "raise"
        /\ pc # "called") =>
        /\ pc = "raised"
        /\ result = Raise(responses.value.text.exc)

C5_Witness ==
    /\ ~stream
    /\ pc = "raised"
    /\ responses.bound
    /\ responses.value.text = Raise("IndexError")
    /\ result = Raise("IndexError")

\* C9: an invocation issues one generate_content call, before any chunk is
\* read, and never a second one; the call carries the arguments passed in
\* and BLOCK_ONLY_HIGH for each of the four harm categories.
C9_OneCallFixedSafety ==
    /\ pc = "start" => (calls = <<>> /\ arrived = <<>>)
    /\ pc # "start" => Len(calls) = 1
    /\ \A i \in DOMAIN calls :
          /\ DOMAIN calls[i].safety_settings =
                {"HARM_CATEGORY_HARASSMENT", "HARM_CATEGORY_HATE_SPEECH",
                 "HARM_CATEGORY_SEXUALLY_EXPLICIT", "HARM_CATEGORY_DANGEROUS_CONTENT"}
          /\ \A c \in DOMAIN calls[i].safety_settings :
                calls[i].safety_settings[c] = "BLOCK_ONLY_HIGH"
          /\ calls[i].model = model
          /\ calls[i].contents = contents
          /\ calls[i].generation_config = generation_config
          /\ calls[i].stream = stream

C9_Witness ==
    /\ stream
    /\ pc = "raised"
    /\ Len(arrived) = 2
    /\ NoPayload(1)
    /\ Len(calls) = 1

----------------------------------------------------------------------------
(* Properties of the helpers, checked under SpecHelpers *)

HasMarker(s) == \E i \in 1..(Len(s) - 4) : SubSeq(s, i, i + 4) = "gs://"
FirstMarker(s) ==
    CHOOSE i \in 1..(Len(s) - 4) :
        /\ SubSeq(s, i, i + 4) = "gs://"
        /\ \A j \in 1..(i - 1) : SubSeq(s, j, j + 4) # "gs://"

\* C6: for an input that contains "gs://", get_storage_url returns the base
\* URL followed by everything after the first occurrence of the marker,
\* also when that remainder contains "gs://" again.
C6_WholeRemainder ==
    (helper.fn = "get_storage_url" /\ helper_result # Pending /\ HasMarker(helper.arg)) =>
        helper_result =
            Return("https://storage.googleapis.com/"
                   \o SubSeq(helper.arg, FirstMarker(helper.arg) + 5, Len(helper.arg)))

\* C7: for an input that does not contain "gs://", the empty string
\* included, get_storage_url raises IndexError and returns no URL.
C7_NoMarkerFails ==
    (helper.fn = "get_storage_url" /\ helper_result # Pending /\ ~HasMarker(helper.arg)) =>
        helper_result = Raise("IndexError")

C7_Witness ==
    /\ helper.fn = "get_storage_url"
    /\ helper.arg = "my-bucket/path/to/object.txt"
    /\ helper_result = Raise("IndexError")

StripLeading(s, prefix) ==
    IF Len(s) >= Len(prefix) /\ SubSeq(s, 1, Len(prefix)) = prefix
    THEN SubSeq(s, Len(prefix) + 1, Len(s))
    ELSE s

\* C8: get_model_name returns the identifier between two backticks after
\* removing only a leading "publishers/google/models/"; an identifier that
\* does not start with the prefix is kept unchanged.
C8_LeadingPrefixOnly ==
    (helper.fn = "get_model_name" /\ helper_result # Pending) =>
        helper_result =
            Return(BACKTICK
                   \o StripLeading(helper.arg._model_name, "publishers/google/models/")
                   \o BACKTICK)

----------------------------------------------------------------------------
(* Properties of the form script, checked under SpecScript *)

\* C10: on every run, for either class type, both upskill_class and
\* language_class are bound when the prompt template is evaluated, and the
\* run does not end in a NameError.
C10_PromptAlwaysBuilt ==
    /\ spc = "prompt" => (ns["upskill_class"].bound /\ ns["language_class"].bound)
    /\ script_exc # "NameError"

====
